---- MODULE Spec2Model ----
(***************************************************************************)
(* State-preserving refresh of the asset tree view                         *)
(* (mindbender/widgets/assetwidget.py): the row traversal, the two         *)
(* context managers preserve_expanded_rows and preserve_selection, and     *)
(* their nesting in AssetWidget._refresh_model.                            *)
(*                                                                         *)
(* A row of the model is a node 1..MaxNodes; the invalid QModelIndex()     *)
(* that stands for the root is 0.  index.data(role) of a row is its key;   *)
(* keys are integers, the key 0 being a value Python treats as false       *)
(* (0, ""), and data() of the invalid index is None.                       *)
(*                                                                         *)
(* The toolkit is taken as the capability set the functions call: expand   *)
(* and collapse set the expansion state of one row, select adds one row to *)
(* the selection, setCurrentIndex sets the current row, a model reset      *)
(* drops selection and current row.                                        *)
(***************************************************************************)
EXTENDS Integers, Sequences, FiniteSets, TLC

MaxNodes == 3
MaxKey == 2

Nodes == 1..MaxNodes
Keys == 0..MaxKey

\* QtCore.QModelIndex(): the invalid index, parent of the top-level rows
Root == 0

\* Python's None: data() of an invalid index, current_index_value when
\* current_index is False
None == -1

\* Python truth value of a role value or of None
Truthy(v) == v # None /\ v # 0

----------------------------------------------------------------------------
(* The tree model as the view sees it *)

RECURSIVE Ascending(_)
Ascending(S) ==
    IF S = {} THEN <<>>
    ELSE LET m == CHOOSE x \in S : \A y \in S : x <= y
         IN <<m>> \o Ascending(S \ {m})

\* parent references of n records, every parent created before its children
ParentMaps(n) == {p \in [1..n -> 0..MaxNodes] : \A i \in 1..n : p[i] < i}

\* the tree built from n records: children in query order, one key per row
TreeOf(n, p, k) ==
    [children |-> [x \in 0..MaxNodes |-> Ascending({i \in 1..n : p[i] = x})],
     key      |-> [i \in Nodes |-> IF i <= n THEN k[i] ELSE None]]

\* role values of n rows.  Only equality and truth value of a key are ever
\* looked at, so the nonzero keys are numbered in order of first appearance.
KeyMaps(n) ==
    {k \in [1..n -> Keys] :
        \A i \in 1..n : k[i] > 1 => \E j \in 1..(i - 1) : k[j] = k[i] - 1}

Trees ==
    UNION {{TreeOf(n, p, k) : p \in ParentMaps(n), k \in KeyMaps(n)} :
           n \in 0..MaxNodes}

\* the trees _refresh_model shows: its role is ObjectIdRole, the `_id` of the
\* record a row was built from, one per record and never false
IdTrees ==
    UNION {{TreeOf(n, p, [i \in 1..n |-> i]) : p \in ParentMaps(n)} :
           n \in 0..MaxNodes}

\* model.rowCount(index)
rowCount(m, index) == Len(m.children[index])

\* model.index(child_row, column, index), rows counted from 0
index_(m, child_row, parent) == m.children[parent][child_row + 1]

\* index.data(role)
data(m, index) == IF index = Root THEN None ELSE m.key[index]

\* the rows the model holds
RowsOf(m) == {i \in Nodes : m.key[i] # None}

RECURSIVE Reverse(_)
Reverse(s) == IF s = <<>> THEN <<>> ELSE Append(Reverse(Tail(s)), Head(s))

----------------------------------------------------------------------------
(* _iter_model_rows *)

\* only the first child row of an index
child_indices_first(m, index) ==
    [r \in 1..(IF rowCount(m, index) > 0 THEN 1 ELSE 0) |->
        index_(m, r - 1, index)]

\* the child indices of one index, appended in row order (lines 25-28)
child_indices(m, index) ==
    [r \in 1..rowCount(m, index) |-> index_(m, r - 1, index)]

\* the for loop over the list that grows while it is iterated (lines 20-28)
RECURSIVE iter_indices(_, _, _)
iter_indices(m, indices, pos) ==
    IF pos > Len(indices) THEN indices
    ELSE iter_indices(m, indices \o child_indices(m, indices[pos]), pos + 1)

\* what the generator yields (lines 30-33)
iter_model_rows(m, include_root) ==
    LET all == iter_indices(m, <<Root>>, 1)
    IN IF include_root THEN all
       ELSE SelectSeq(all, LAMBDA index : index # Root)

----------------------------------------------------------------------------
(* The host calls the two exit phases make, in the order they make them *)

Call(scope, op, index) == [scope |-> scope, op |-> op, index |-> index]

----------------------------------------------------------------------------
(* preserve_expanded_rows *)

\* entry: the keys of the rows the view shows expanded (lines 59-66)
capture_expanded(m, isExp) ==
    LET rows == iter_model_rows(m, FALSE)
    IN {data(m, rows[j]) : j \in {j \in 1..Len(rows) : rows[j] \in isExp}}

\* one pass that expands the captured keys and leaves the other rows alone
apply_expanded_only(m, exp, index, v) ==
    LET value == data(m, index)
        state == value \in exp
    IN IF state
       THEN [isExpanded |-> v.isExpanded \cup {index},
             log |-> Append(v.log, Call("expanded", "expand", index))]
       ELSE v

\* one pass of the restoring loop (lines 77-82)
apply_expanded(m, exp, index, v) ==
    LET value == data(m, index)
        state == value \in exp
    IN IF state
       THEN [isExpanded |-> v.isExpanded \cup {index},
             log |-> Append(v.log, Call("expanded", "expand", index))]
       ELSE [isExpanded |-> v.isExpanded \ {index},
             log |-> Append(v.log, Call("expanded", "collapse", index))]

\* the restoring loop over the rows of the rebuilt model (lines 74-82)
RECURSIVE restore_expanded(_, _, _, _)
restore_expanded(m, rows, exp, v) ==
    IF rows = <<>> THEN v
    ELSE restore_expanded(m, Tail(rows), exp,
                          apply_expanded(m, exp, Head(rows), v))

\* the finally block without its early return: every row is visited even
\* when nothing was captured
expanded_finally_always(m, exp, v, inflight) ==
    LET w == restore_expanded(
                 m, iter_model_rows(m, FALSE), exp,
                 [isExpanded |-> v.isExpanded,
                  log |-> Append(v.log, Call("expanded", "iter", Root))])
    IN [isExpanded |-> w.isExpanded, log |-> w.log, exc |-> inflight]

\* the finally block (lines 70-82): v is the view state and the log, inflight
\* the exception the body raised ("none" when it returned).  `return` inside
\* finally ends the generator, so contextlib's __exit__ reports the exception
\* as handled.
expanded_finally(m, exp, v, inflight) ==
    IF exp = {}
    THEN [isExpanded |-> v.isExpanded, log |-> v.log, exc |-> "none"]
    ELSE LET w == restore_expanded(
                      m, iter_model_rows(m, FALSE), exp,
                      [isExpanded |-> v.isExpanded,
                       log |-> Append(v.log, Call("expanded", "iter", Root))])
         IN [isExpanded |-> w.isExpanded, log |-> w.log, exc |-> inflight]

----------------------------------------------------------------------------
(* preserve_selection *)

\* the current key captured whatever the flag says
capture_current_always(flag, m, cur) == data(m, cur)

\* entry: the key of the current row, when asked to track it (lines 112-115)
capture_current(flag, m, cur) == IF flag THEN data(m, cur) ELSE None

\* entry: the keys of the selected rows (line 122)
capture_selected(m, rows) == {data(m, row) : row \in rows}

\* one pass that stops selecting a key once a row with it is selected
\* (first match only)
apply_selection_first(m, sel, cur_value, bad, index, v) ==
    LET value == data(m, index)
        state == /\ value \in sel
                 /\ \A j \in v.selection : data(m, j) # value
        s1 == IF ~state THEN v
              ELSE [v EXCEPT !.selection = @ \cup {index},
                             !.log = Append(@, Call("selection", "select", index))]
    IN IF ~(Truthy(cur_value) /\ value = cur_value) THEN s1
       ELSE [s1 EXCEPT !.currentIndex = index,
                       !.log = Append(@, Call("selection", "setCurrentIndex", index))]

\* one pass of the restoring loop (lines 134-140); a host call on a row of
\* `bad` raises, and nothing in the loop catches it
apply_selection(m, sel, cur_value, bad, index, v) ==
    LET value == data(m, index)
        state == value \in sel
        s1 == IF ~state THEN v
              ELSE IF index \in bad THEN [v EXCEPT !.failed = TRUE]
              ELSE [v EXCEPT !.selection = @ \cup {index},
                             !.log = Append(@, Call("selection", "select", index))]
    IN IF s1.failed \/ ~(Truthy(cur_value) /\ value = cur_value) THEN s1
       ELSE IF index \in bad THEN [s1 EXCEPT !.failed = TRUE]
       ELSE [s1 EXCEPT !.currentIndex = index,
                       !.log = Append(@, Call("selection", "setCurrentIndex", index))]

\* the restoring loop (lines 130-140), left at the first call that raises
RECURSIVE restore_selection(_, _, _, _, _, _)
restore_selection(m, rows, sel, cur_value, bad, v) ==
    IF rows = <<>> \/ v.failed THEN v
    ELSE restore_selection(m, Tail(rows), sel, cur_value, bad,
                           apply_selection(m, sel, cur_value, bad, Head(rows), v))

\* an exit that looks every captured key up in the rebuilt model and raises
\* on the first one it does not find
selection_exit_lookup(m, rows_at_entry, sel, cur_value, bad, v, inflight) ==
    IF rows_at_entry = {}
    THEN [selection |-> v.selection, currentIndex |-> v.currentIndex,
          log |-> v.log, exc |-> inflight]
    ELSE IF \E k \in sel : \A i \in Nodes : m.key[i] # k
    THEN [selection |-> v.selection, currentIndex |-> v.currentIndex,
          log |-> v.log, exc |-> "host"]
    ELSE LET w == restore_selection(
                      m, iter_model_rows(m, FALSE), sel, cur_value, bad,
                      [selection |-> v.selection,
                       currentIndex |-> v.currentIndex,
                       log |-> Append(v.log, Call("selection", "iter", Root)),
                       failed |-> FALSE])
         IN [selection |-> w.selection, currentIndex |-> w.currentIndex,
             log |-> w.log, exc |-> IF w.failed THEN "host" ELSE inflight]

\* the exit of the scope (lines 117-140).  With no selected row at entry the
\* generator is past its plain `yield` (lines 118-120): nothing is restored
\* and an exception of the body passes through.
selection_exit(m, rows_at_entry, sel, cur_value, bad, v, inflight) ==
    IF rows_at_entry = {}
    THEN [selection |-> v.selection, currentIndex |-> v.currentIndex,
          log |-> v.log, exc |-> inflight]
    ELSE IF sel = {}
    THEN [selection |-> v.selection, currentIndex |-> v.currentIndex,
          log |-> v.log, exc |-> "none"]
    ELSE LET w == restore_selection(
                      m, iter_model_rows(m, FALSE), sel, cur_value, bad,
                      [selection |-> v.selection,
                       currentIndex |-> v.currentIndex,
                       log |-> Append(v.log, Call("selection", "iter", Root)),
                       failed |-> FALSE])
         IN [selection |-> w.selection, currentIndex |-> w.currentIndex,
             log |-> w.log, exc |-> IF w.failed THEN "host" ELSE inflight]

----------------------------------------------------------------------------
(* The rebuild the scopes wrap: AssetModel.refresh under set_silo, then      *)
(* expandAll.  The model is reset, which drops selection and current row.   *)

\* the same rows, every sibling list in the opposite order
Reordered(m) ==
    [m EXCEPT !.children = [x \in 0..MaxNodes |-> Reverse(m.children[x])]]

\* the rows below and including x
Subtree(m, x) ==
    LET s == iter_indices(m, <<x>>, 1) IN {s[j] : j \in 1..Len(s)}

\* the tree without the record x and the records parented under it
Removed(m, x) ==
    LET gone == Subtree(m, x)
    IN [children |-> [y \in 0..MaxNodes |->
                        IF y \in gone THEN <<>>
                        ELSE SelectSeq(m.children[y], LAMBDA c : c \notin gone)],
        key |-> [i \in Nodes |-> IF i \in gone THEN None ELSE m.key[i]]]

RebuildKinds == {"same", "reorder", "remove"}

Rebuilt(m, kind) ==
    CASE kind = "same" -> {m}
      [] kind = "reorder" -> {Reordered(m)} \ {m}
      [] kind = "remove" -> {Removed(m, x) : x \in RowsOf(m)}

----------------------------------------------------------------------------
(* State of the parts of the program the refresh scopes do not touch.  Each *)
(* part has its own specification; the others stay as they are built.      *)

VARIABLES
    tree,                 \* _iter_model_rows: the model argument
    include_root,         \* _iter_model_rows: the include_root argument
    indices,              \* _iter_model_rows: the list the loop runs over
    pos,                  \* _iter_model_rows: loop position, 0 outside a call
    yielded,              \* what the running generator has yielded
    results               \* what the finished generators yielded, per call

iterVars == <<tree, include_root, indices, pos, yielded, results>>

IterIdle ==
    /\ tree = TreeOf(0, <<>>, <<>>)
    /\ include_root = FALSE
    /\ indices = <<>>
    /\ pos = 0
    /\ yielded = <<>>
    /\ results = <<>>

VARIABLES
    assets,               \* the asset records of the database, by _id
    silo,                 \* AssetModel._silo
    nodes,                \* AssetModel: the tree of Nodes
    created,              \* the records in the order their Nodes were made
    fresh,                \* no record changed since the last refresh
    replaced              \* the records with a Node before the last refresh

hierVars == <<assets, silo, nodes, created, fresh, replaced>>

\* the _id of the project document
ProjectId == 0

\* a parent reference to a document that is not an asset of the project
Elsewhere == MaxNodes + 1

Silos == {"assets", "film"}

Records == [silo : Silos, parent : 0..Elsewhere]

HierIdle ==
    /\ assets = [r \in Nodes |-> [silo |-> "assets", parent |-> ProjectId]]
    /\ silo = "None"
    /\ nodes = TreeOf(0, <<>>, <<>>)
    /\ created = <<>>
    /\ fresh = FALSE
    /\ replaced = {}

VARIABLES
    collections,          \* bpy.data.collections, in order of creation
    scene_children,       \* bpy.context.scene.collection.children
    passed,               \* what each collection was made from
    listing,              \* the entries of the last ls()
    listed                \* no collection was made since the last ls()

hostVars == <<collections, scene_children, passed, listing, listed>>

HostIdle ==
    /\ collections = <<>>
    /\ scene_children = {}
    /\ passed = <<>>
    /\ listing = <<>>
    /\ listed = FALSE

VARIABLES
    objects,              \* bpy.context.scene.objects
    removed,              \* the objects removed from the host data
    selectable,           \* the objects whose select_set(True) succeeds
    selected_objects,     \* the objects with select_get() true
    active,               \* bpy.context.view_layer.objects.active, 0 for None
    previous_selection,   \* local of maintained_selection
    previous_active,      \* local of maintained_selection
    at_entry,             \* selection and active object when the scope began
    stage,                \* "out", "in", "left"
    outcome,              \* how the with statement ended
    printed               \* the objects of the "Failed to reselect" lines

selVars == <<objects, removed, selectable, selected_objects, active,
             previous_selection, previous_active, at_entry, stage, outcome,
             printed>>

SelIdle ==
    /\ objects = {}
    /\ removed = {}
    /\ selectable = {}
    /\ selected_objects = {}
    /\ active = 0
    /\ previous_selection = <<>>
    /\ previous_active = 0
    /\ at_entry = [selected |-> {}, active |-> 0]
    /\ stage = "out"
    /\ outcome = "none"
    /\ printed = <<>>

VARIABLES
    load_post,            \* bpy.app.handlers.load_post
    save_pre,             \* bpy.app.handlers.save_pre
    save_post,            \* bpy.app.handlers.save_post
    registered,           \* the operator and menu classes are registered
    editor_menus,         \* the draw functions of VIEW3D_MT_editor_menus
    registered_hosts,     \* the hosts registered with pyblish
    background,           \* bpy.app.background
    filepath,             \* bpy.data.filepath is not empty
    emitted,              \* the application events of the last host event
    last_call,            \* the last of install and uninstall, how it ended,
                          \* and the call before it
    installs              \* the number of calls of install

appVars == <<load_post, save_pre, save_post, registered, editor_menus,
             registered_hosts, background, filepath, emitted, last_call,
             installs>>

NoCall == [name |-> "none", error |-> "none", after |-> "none"]

AppIdle ==
    /\ load_post = <<>>
    /\ save_pre = <<>>
    /\ save_post = <<>>
    /\ registered = FALSE
    /\ editor_menus = <<>>
    /\ registered_hosts = {}
    /\ background = FALSE
    /\ filepath = FALSE
    /\ emitted = [on |-> "none", events |-> <<>>]
    /\ last_call = NoCall
    /\ installs = 0

otherVars == <<iterVars, hierVars, hostVars, selVars, appVars>>

OtherIdle == IterIdle /\ HierIdle /\ HostIdle /\ SelIdle /\ AppIdle

----------------------------------------------------------------------------
(* State *)

VARIABLES
    caller,               \* which entry point runs
    pc,                   \* how far it got
    model,                \* tree_view.model()
    isExpanded,           \* rows the view shows expanded
    selection,            \* selection_model.selectedRows()
    currentIndex,         \* tree_view.currentIndex(), Root when there is none
    current_index,        \* the current_index argument of preserve_selection
    expanded,             \* preserve_expanded_rows: captured keys
    selected_rows,        \* preserve_selection: rows selected at entry
    selected,             \* preserve_selection: captured keys
    current_index_value,  \* preserve_selection: captured key of the current row
    failing,              \* rows on which a host selection call raises
    exc,                  \* exception in flight: "none", "rebuild" or "host"
    log,                  \* host calls of the exit phases
    pre,                  \* view state when the outer scope was entered
    rebuild,              \* what the rebuild did to the tree, and whether it raised
    left                  \* view state the rebuild left

scopeVars == <<caller, pc, model, isExpanded, selection, currentIndex,
               current_index, expanded, selected_rows, selected,
               current_index_value, failing, exc, log, pre, rebuild, left>>

vars == <<scopeVars, otherVars>>

Callers == {"preserve_expanded_rows", "preserve_selection", "_refresh_model"}

View == [model |-> model, isExpanded |-> isExpanded,
         selection |-> selection, currentIndex |-> currentIndex]

NoView == [model |-> TreeOf(0, <<>>, <<>>), isExpanded |-> {},
           selection |-> {}, currentIndex |-> Root]

InitWith(callers, bads) ==
    /\ caller \in callers
    /\ pc = "start"
    /\ model \in IF caller = "_refresh_model" THEN IdTrees ELSE Trees
    /\ isExpanded \in SUBSET RowsOf(model)
    /\ selection \in SUBSET RowsOf(model)
    /\ currentIndex \in RowsOf(model) \cup {Root}
    /\ current_index \in BOOLEAN
    /\ caller = "preserve_expanded_rows" =>
           selection = {} /\ currentIndex = Root /\ current_index
    /\ caller = "preserve_selection" => isExpanded = {}
    /\ caller = "_refresh_model" => current_index
    /\ expanded = {}
    /\ selected_rows = {}
    /\ selected = {}
    /\ current_index_value = None
    /\ failing \in bads
    /\ exc = "none"
    /\ log = <<>>
    /\ pre = View
    /\ rebuild = [kind |-> "none", raised |-> FALSE]
    /\ left = NoView
    /\ OtherIdle

Init == InitWith(Callers, {{}})

----------------------------------------------------------------------------
(* Steps *)

\* preserve_expanded_rows up to its yield (lines 57-69)
ExpandedEnter ==
    /\ pc = "start"
    /\ caller \in {"preserve_expanded_rows", "_refresh_model"}
    /\ expanded' = capture_expanded(model, isExpanded)
    /\ pc' = "expanded_entered"
    /\ UNCHANGED <<otherVars, caller, model, isExpanded, selection, currentIndex,
                   current_index, selected_rows, selected, current_index_value,
                   failing, exc, log, pre, rebuild, left>>

\* preserve_selection up to its yield (lines 108-124)
SelectionEnter ==
    /\ \/ pc = "start" /\ caller = "preserve_selection"
       \/ pc = "expanded_entered" /\ caller = "_refresh_model"
    /\ current_index_value' = capture_current(current_index, model, currentIndex)
    /\ selected_rows' = selection
    /\ selected' = capture_selected(model, selection)
    /\ pc' = "selection_entered"
    /\ UNCHANGED <<otherVars, caller, model, isExpanded, selection, currentIndex,
                   current_index, expanded, failing, exc, log, pre, rebuild, left>>

\* the expansion state a rebuild may leave: any for a scope used alone,
\* all collapsed (the reset) or all expanded (expandAll) in _refresh_model
LeftExpanded(m) ==
    IF caller = "preserve_expanded_rows" THEN SUBSET RowsOf(m)
    ELSE IF caller = "_refresh_model" THEN {{}, RowsOf(m)}
    ELSE {RowsOf(m)}

\* the body of the with statement (lines 397-398)
Rebuild ==
    /\ \/ pc = "expanded_entered" /\ caller = "preserve_expanded_rows"
       \/ pc = "selection_entered"
    /\ \E kind \in RebuildKinds, raised \in BOOLEAN :
         \E m \in Rebuilt(model, kind) :
           \E e \in LeftExpanded(m) :
             /\ model' = m
             /\ isExpanded' = e
             /\ selection' = {}
             /\ currentIndex' = Root
             /\ exc' = IF raised THEN "rebuild" ELSE "none"
             /\ rebuild' = [kind |-> kind, raised |-> raised]
             /\ left' = [model |-> m, isExpanded |-> e,
                         selection |-> {}, currentIndex |-> Root]
    /\ pc' = "rebuilt"
    /\ UNCHANGED <<otherVars, caller, current_index, expanded, selected_rows, selected,
                   current_index_value, failing, log, pre>>

\* preserve_selection from its yield on (lines 117-140)
SelectionExit ==
    /\ pc = "rebuilt"
    /\ caller \in {"preserve_selection", "_refresh_model"}
    /\ LET r == selection_exit(model, selected_rows, selected,
                               current_index_value, failing,
                               [selection |-> selection,
                                currentIndex |-> currentIndex, log |-> log],
                               exc)
       IN /\ selection' = r.selection
          /\ currentIndex' = r.currentIndex
          /\ log' = r.log
          /\ exc' = r.exc
    /\ pc' = IF caller = "_refresh_model" THEN "selection_exited" ELSE "done"
    /\ UNCHANGED <<otherVars, caller, model, isExpanded, current_index, expanded,
                   selected_rows, selected, current_index_value, failing,
                   pre, rebuild, left>>

\* preserve_expanded_rows from its yield on (lines 68-82)
ExpandedExit ==
    /\ \/ pc = "rebuilt" /\ caller = "preserve_expanded_rows"
       \/ pc = "selection_exited"
    /\ LET r == expanded_finally(model, expanded,
                                 [isExpanded |-> isExpanded, log |-> log], exc)
       IN /\ isExpanded' = r.isExpanded
          /\ log' = r.log
          /\ exc' = r.exc
    /\ pc' = "done"
    /\ UNCHANGED <<otherVars, caller, model, selection, currentIndex, current_index,
                   expanded, selected_rows, selected, current_index_value,
                   failing, pre, rebuild, left>>

Next ==
    \/ ExpandedEnter
    \/ SelectionEnter
    \/ Rebuild
    \/ SelectionExit
    \/ ExpandedExit

Spec == Init /\ [][Next]_vars

NextSelection ==
    \/ SelectionEnter
    \/ Rebuild
    \/ SelectionExit

\* preserve_selection alone, on a host whose selection calls raise on one row
InitFault == InitWith({"preserve_selection"}, {{x} : x \in Nodes})

SpecFault == InitFault /\ [][NextSelection]_vars

\* no refresh scope is running
ScopeIdle ==
    /\ caller = "none"
    /\ pc = "idle"
    /\ model = TreeOf(0, <<>>, <<>>)
    /\ isExpanded = {}
    /\ selection = {}
    /\ currentIndex = Root
    /\ current_index = TRUE
    /\ expanded = {}
    /\ selected_rows = {}
    /\ selected = {}
    /\ current_index_value = None
    /\ failing = {}
    /\ exc = "none"
    /\ log = <<>>
    /\ pre = NoView
    /\ rebuild = [kind |-> "none", raised |-> FALSE]
    /\ left = NoView

----------------------------------------------------------------------------
(* _iter_model_rows, one pass of its loop at a time *)

\* the models the generator is handed: built trees, as built or with the
\* sibling order turned round, whole or with a record gone
WalkTrees ==
    LET built == IdTrees \cup {Reordered(m) : m \in IdTrees}
    IN built \cup UNION {{Removed(m, x) : x \in RowsOf(m)} : m \in built}

MaxCalls == 2

InitIter ==
    /\ tree \in WalkTrees
    /\ include_root \in BOOLEAN
    /\ indices = <<>>
    /\ pos = 0
    /\ yielded = <<>>
    /\ results = <<>>
    /\ HierIdle
    /\ HostIdle
    /\ SelIdle
    /\ AppIdle
    /\ ScopeIdle

\* the call: a fresh list holding the root index (line 20)
IterStart ==
    /\ pos = 0
    /\ Len(results) < MaxCalls
    /\ indices' = <<Root>>
    /\ pos' = 1
    /\ yielded' = <<>>
    /\ UNCHANGED <<tree, include_root, results, hierVars, hostVars, selVars,
                   appVars, scopeVars>>

\* one pass of the for loop (lines 22-33)
IterStep ==
    /\ pos >= 1
    /\ pos <= Len(indices)
    /\ LET index == indices[pos]
       IN /\ indices' = indices \o child_indices(tree, index)
          /\ yielded' = IF ~include_root /\ index = Root
                         THEN yielded
                         ELSE Append(yielded, index)
    /\ pos' = pos + 1
    /\ UNCHANGED <<tree, include_root, results, hierVars, hostVars, selVars,
                   appVars, scopeVars>>

\* the list is used up: the generator ends
IterEnd ==
    /\ pos >= 1
    /\ pos > Len(indices)
    /\ results' = Append(results, yielded)
    /\ pos' = 0
    /\ UNCHANGED <<tree, include_root, indices, yielded, hierVars, hostVars, selVars,
                   appVars, scopeVars>>

NextIter ==
    \/ IterStart
    \/ IterStep
    \/ IterEnd

SpecIter == InitIter /\ [][NextIter]_vars

----------------------------------------------------------------------------
(* AssetModel: the hierarchy built from the flat asset records *)

\* io.find({"type": "asset", "silo": s, "parent": parent_id}), in the order
\* of the collection (lines 199-201)
find_assets(db, s, parent_id) ==
    Ascending({r \in Nodes : db[r].silo = s /\ db[r].parent = parent_id})

\* TreeModel.clear(): an empty root
clear == [children |-> [x \in 0..MaxNodes |-> <<>>],
          key |-> [i \in Nodes |-> None],
          created |-> <<>>]

\* TreeModel.add_child(node, parent): the node becomes the last child
add_child(t, node, parent) ==
    [children |-> [t.children EXCEPT ![parent] = Append(@, node)],
     key |-> [t.key EXCEPT ![node] = node],
     created |-> Append(t.created, node)]

\* parent_id of lines 190-195: the project for the root, else the Node's _id
parent_id_of(parent) == IF parent = Root THEN ProjectId ELSE parent

RECURSIVE add_hierarchy(_, _, _, _)
RECURSIVE add_assets(_, _, _, _, _)

\* the for loop of _add_hierarchy (lines 203-222)
add_assets(db, s, parent, found, t) ==
    IF found = <<>> THEN t
    ELSE LET asset == Head(found)
             made == add_child(t, asset, parent)
         IN add_assets(db, s, parent, Tail(found),
                       add_hierarchy(db, s, asset, made))

\* _add_hierarchy(parent) (lines 188-222)
add_hierarchy(db, s, parent, t) ==
    add_assets(db, s, parent, find_assets(db, s, parent_id_of(parent)), t)

\* a refresh that builds onto the tree it finds
refresh_onto(db, s, old) == add_hierarchy(db, s, Root, old)

\* AssetModel.refresh (lines 224-230)
refresh(db, s, old) == add_hierarchy(db, s, Root, clear)

InitHier ==
    /\ assets \in [Nodes -> Records]
    /\ silo = "None"
    /\ nodes = TreeOf(0, <<>>, <<>>)
    /\ created = <<>>
    /\ fresh = FALSE
    /\ replaced = {}
    /\ IterIdle
    /\ HostIdle
    /\ SelIdle
    /\ AppIdle
    /\ ScopeIdle

Refreshed(s) ==
    LET t == refresh(assets, s, [children |-> nodes.children,
                                 key |-> nodes.key, created |-> created])
    IN /\ nodes' = [children |-> t.children, key |-> t.key]
       /\ created' = t.created
       /\ fresh' = TRUE
       /\ replaced' = RowsOf(nodes)

\* AssetModel.set_silo(silo, refresh) (lines 182-186)
SetSilo ==
    /\ \E s \in Silos, with_refresh \in BOOLEAN :
          /\ silo' = s
          /\ IF with_refresh THEN Refreshed(s)
             ELSE /\ s # silo
                  /\ fresh' = FALSE
                  /\ UNCHANGED <<nodes, created, replaced>>
    /\ UNCHANGED <<assets, iterVars, hostVars, selVars,
                   appVars, scopeVars>>

\* AssetModel.refresh() (lines 224-230)
Refresh ==
    /\ silo # "None"
    /\ Refreshed(silo)
    /\ UNCHANGED <<assets, silo, iterVars, hostVars, selVars,
                   appVars, scopeVars>>

\* the database changes under the model: one record moves to another silo
\* or another parent
EditAsset ==
    /\ fresh
    /\ \E r \in Nodes, rec \in Records :
          /\ rec # assets[r]
          /\ rec.silo = assets[r].silo \/ rec.parent = assets[r].parent
          /\ assets' = [assets EXCEPT ![r] = rec]
    /\ fresh' = FALSE
    /\ UNCHANGED <<silo, nodes, created, replaced, iterVars, hostVars, selVars,
                   appVars, scopeVars>>

NextHier ==
    \/ SetSilo
    \/ Refresh
    \/ EditAsset

SpecHier == InitHier /\ [][NextHier]_vars

----------------------------------------------------------------------------
(* avalon.blender.pipeline: containers *)

MaxCollections == 4

\* Python values, by type and text
Str(t) == [type |-> "str", text |-> t]
Oid(t) == [type |-> "ObjectId", text |-> t]
NoneValue == [type |-> "NoneType", text |-> "None"]

\* str(v)
str(v) == [type |-> "str", text |-> v.text]

AVALON_CONTAINERS == "AVALON_CONTAINERS"

\* a collection without the "avalon" property
Absent == [absent |-> TRUE]

NamesIn(cols) == {cols[c].name : c \in 1..Len(cols)}

\* the name the host gives a new data-block: the one asked for, or the
\* first free numbered one
Numbered == <<".001", ".002", ".003", ".004", ".005", ".006">>

unique_name(cols, n) ==
    IF n \notin NamesIn(cols) THEN n
    ELSE LET free == {j \in 1..Len(Numbered) :
                        n \o Numbered[j] \notin NamesIn(cols)}
         IN n \o Numbered[CHOOSE j \in free : \A k \in free : j <= k]

\* bpy.data.collections.new(name)
collections_new(cols, n) ==
    Append(cols, [name |-> unique_name(cols, n), avalon |-> Absent,
                  objects |-> {}, children |-> {}])

\* bpy.data.collections.get(name): the index of the collection, 0 for None
collections_get(cols, n) ==
    IF n \in NamesIn(cols)
    THEN CHOOSE c \in 1..Len(cols) : cols[c].name = n
    ELSE 0

\* containerise(name, namespace, nodes, context, loader, suffix)
\* (lines 64-120); h is the host data: the collections and the children of
\* the scene collection
containerise(h, name, namespace, nodes_, representation_id, loader, suffix) ==
    LET node_name == namespace.text \o "_" \o name.text \o "_" \o suffix
        made == collections_new(h.collections, node_name)
        container == Len(made)
        metadata == [schema |-> Str("avalon-core:container-2.0"),
                     id |-> Str("pyblish.avalon.container"),
                     name |-> name,
                     namespace |-> namespace,
                     loader |-> str(loader),
                     representation |-> str(representation_id)]
        imprinted == [made EXCEPT ![container].avalon = metadata,
                                  ![container].objects = nodes_]
        found == collections_get(imprinted, AVALON_CONTAINERS)
        with_root == IF found = 0
                     THEN collections_new(imprinted, AVALON_CONTAINERS)
                     ELSE imprinted
        avalon_container == IF found = 0 THEN Len(with_root) ELSE found
    IN [collections |->
            [with_root EXCEPT ![avalon_container].children = @ \cup {container}],
        scene_children |->
            IF found = 0 THEN h.scene_children \cup {avalon_container}
            ELSE h.scene_children,
        container |-> container]

\* schema.validate(data): data with the six fields of a container passes
validate(data_) ==
    {"schema", "id", "name", "namespace", "loader", "representation"}
        \subseteq DOMAIN data_

\* parse_container(container) (lines 123-148): the entry, NoneValue without
\* the property, the validation error for data that does not pass
parse_container(cols, container) ==
    IF cols[container].avalon = Absent THEN NoneValue
    ELSE LET stored == cols[container].avalon
             entry == [k \in DOMAIN stored \cup {"objectName", "node"} |->
                          IF k = "objectName" THEN Str(cols[container].name)
                          ELSE IF k = "node" THEN container
                          ELSE stored[k]]
         IN IF validate(entry) THEN entry
            ELSE [node |-> container, raised |-> "ValidationError"]

\* data.get("id", None)
get_id(stored) == IF "id" \in DOMAIN stored THEN stored.id ELSE NoneValue

RECURSIVE ls_from(_, _, _)

\* an ls() that takes every collection with the property for a container
ls_from_any(cols, c, marker) ==
    IF c > Len(cols) THEN <<>>
    ELSE IF cols[c].avalon = Absent THEN ls_from(cols, c + 1, marker)
    ELSE <<parse_container(cols, c)>> \o ls_from(cols, c + 1, marker)

\* ls() (lines 151-168), from collection c on
ls_from(cols, c, marker) ==
    IF c > Len(cols) THEN <<>>
    ELSE IF cols[c].avalon = Absent THEN ls_from(cols, c + 1, marker)
    ELSE IF get_id(cols[c].avalon) # marker THEN ls_from(cols, c + 1, marker)
    ELSE <<parse_container(cols, c)>> \o ls_from(cols, c + 1, marker)

ls(cols) == ls_from(cols, 1, Str("pyblish.avalon.container"))

ContainerNames == {Str("hero"), Str("None")}
Namespaces == {Str("ns")}
Loaders == {NoneValue, Str("None"), Str("ModelLoader")}
RepresentationIds == {Oid("5f1e"), Str("5f1e")}
Suffixes == {"CON"}
SceneObjects == {1}

\* the properties an artist or another tool may have put on a collection
ForeignProperties ==
    {Absent,
     [id |-> Str("pyblish.avalon.instance"), name |-> Str("hero")],
     [name |-> Str("hero")]}

InitHost ==
    /\ collections = <<>>
    /\ scene_children = {}
    /\ passed = <<>>
    /\ listing = <<>>
    /\ listed = FALSE
    /\ IterIdle
    /\ HierIdle
    /\ SelIdle
    /\ AppIdle
    /\ ScopeIdle

Containerise ==
    /\ Len(collections) + 2 <= MaxCollections
    /\ \E name \in ContainerNames, namespace \in Namespaces,
          nodes_ \in SUBSET SceneObjects, rid \in RepresentationIds,
          loader \in Loaders, suffix \in Suffixes :
          LET h == containerise([collections |-> collections,
                                 scene_children |-> scene_children],
                                name, namespace, nodes_, rid, loader, suffix)
              args == [by |-> "containerise", name |-> name,
                       namespace |-> namespace, nodes |-> nodes_,
                       representation |-> rid, loader |-> loader]
          IN /\ collections' = h.collections
             /\ scene_children' = h.scene_children
             /\ passed' = [c \in 1..Len(h.collections) |->
                              IF c <= Len(passed) THEN passed[c]
                              ELSE IF c = h.container THEN args
                              ELSE [by |-> "install"]]
    /\ listing' = <<>>
    /\ listed' = FALSE
    /\ UNCHANGED <<iterVars, hierVars, selVars,
                   appVars, scopeVars>>

\* a collection made in the host by other means
NewCollection ==
    /\ Len(collections) < MaxCollections
    /\ \E n \in {"Collection", "ns_hero_CON"}, props \in ForeignProperties :
          /\ collections' =
                [collections_new(collections, n)
                    EXCEPT ![Len(collections) + 1].avalon = props]
          /\ passed' = Append(passed, [by |-> "host"])
    /\ listing' = <<>>
    /\ listed' = FALSE
    /\ UNCHANGED <<scene_children, iterVars, hierVars, selVars,
                   appVars, scopeVars>>

Ls ==
    /\ ~listed
    /\ listing' = ls(collections)
    /\ listed' = TRUE
    /\ UNCHANGED <<collections, scene_children, passed,
                   iterVars, hierVars, selVars,
                   appVars, scopeVars>>

NextHost ==
    \/ Containerise
    \/ NewCollection
    \/ Ls

SpecHost == InitHost /\ [][NextHost]_vars

----------------------------------------------------------------------------
(* avalon.blender.lib: maintained_selection *)

MaxObjects == 3

Objects == 1..MaxObjects

\* get_selected() (lines 5-23): the selected objects in scene order
get_selected(selected_) == Ascending(selected_)

\* the loop of lines 71-79 that stops at the first object it cannot select
RECURSIVE reselect(_, _, _)
reselect_until_failure(can, previous, done) ==
    IF previous = <<>> THEN done
    ELSE IF Head(previous) \notin can
    THEN [done EXCEPT !.printed = Append(@, Head(previous))]
    ELSE reselect(can, Tail(previous),
                  [done EXCEPT !.selected = @ \cup {Head(previous)}])

\* the loop of lines 71-79: select_set(state=True) on every captured object,
\* a failure printed and passed over
reselect(can, previous, done) ==
    IF previous = <<>> THEN done
    ELSE IF Head(previous) \notin can
    THEN reselect(can, Tail(previous),
                  [done EXCEPT !.printed = Append(@, Head(previous))])
    ELSE reselect(can, Tail(previous),
                  [done EXCEPT !.selected = @ \cup {Head(previous)}])

\* the finally block (lines 66-81).  Assigning an object that was removed
\* from the host data as the active one is rejected by the host: it raises,
\* or it leaves no active object.
maintained_exit(present, can, now_active, previous, previous_active_, raises) ==
    LET cleared == [selected |-> {}, printed |-> <<>>]
        again == IF previous # <<>> THEN reselect(can, previous, cleared)
                 ELSE cleared
        valid == previous_active_ = 0 \/ previous_active_ \in present
    IN [selected |-> again.selected,
        printed |-> again.printed,
        active |-> IF valid THEN previous_active_
                   ELSE IF raises THEN now_active ELSE 0,
        raised |-> ~valid /\ raises]

InitSel ==
    /\ objects \in SUBSET Objects
    /\ removed = {}
    /\ selectable \in SUBSET objects
    /\ selected_objects \in SUBSET selectable
    /\ active \in objects \cup {0}
    /\ previous_selection = <<>>
    /\ previous_active = 0
    /\ at_entry = [selected |-> {}, active |-> 0]
    /\ stage = "out"
    /\ outcome = "none"
    /\ printed = <<>>
    /\ IterIdle
    /\ HierIdle
    /\ HostIdle
    /\ AppIdle
    /\ ScopeIdle

\* lines 61-65, up to the yield
SelEnter ==
    /\ stage = "out"
    /\ previous_selection' = get_selected(selected_objects)
    /\ previous_active' = active
    /\ at_entry' = [selected |-> selected_objects, active |-> active]
    /\ stage' = "in"
    /\ UNCHANGED <<objects, removed, selectable, selected_objects, active,
                   outcome, printed, iterVars, hierVars, hostVars,
                   appVars, scopeVars>>

\* the body of the with statement removes an object
BodyRemove ==
    /\ stage = "in"
    /\ \E o \in objects :
          /\ objects' = objects \ {o}
          /\ removed' = removed \cup {o}
          /\ selectable' = selectable \ {o}
          /\ selected_objects' = selected_objects \ {o}
          /\ active' = IF active = o THEN 0 ELSE active
    /\ UNCHANGED <<previous_selection, previous_active, at_entry, stage,
                   outcome, printed, iterVars, hierVars, hostVars,
                   appVars, scopeVars>>

\* the body makes a new object, selected and active as after an import
BodyCreate ==
    /\ stage = "in"
    /\ \E o \in Objects \ (objects \cup removed) :
          /\ objects' = objects \cup {o}
          /\ selectable' = selectable \cup {o}
          /\ selected_objects' = selected_objects \cup {o}
          /\ active' = o
    /\ UNCHANGED <<removed, previous_selection, previous_active, at_entry,
                   stage, outcome, printed,
                   iterVars, hierVars, hostVars,
                   appVars, scopeVars>>

\* the body selects or deselects an object, or takes it out of the view
\* layer or back in
BodySelect ==
    /\ stage = "in"
    /\ \E o \in objects, how \in {"select", "deselect", "exclude", "include"} :
          /\ how = "select" => o \in selectable
          /\ how = "include" => o \notin selectable
          /\ how = "exclude" => o \in selectable
          /\ how = "deselect" => o \in selected_objects
          /\ selected_objects' =
                IF how = "select" THEN selected_objects \cup {o}
                ELSE selected_objects \ {o}
          /\ selectable' =
                IF how = "exclude" THEN selectable \ {o}
                ELSE IF how = "include" THEN selectable \cup {o}
                ELSE selectable
    /\ UNCHANGED <<objects, removed, active, previous_selection,
                   previous_active, at_entry, stage, outcome, printed,
                   iterVars, hierVars, hostVars,
                   appVars, scopeVars>>

\* the body makes another object, or none, the active one
BodyActivate ==
    /\ stage = "in"
    /\ \E o \in objects \cup {0} : o # active /\ active' = o
    /\ UNCHANGED <<objects, removed, selectable, selected_objects,
                   previous_selection, previous_active, at_entry, stage,
                   outcome, printed, iterVars, hierVars, hostVars,
                   appVars, scopeVars>>

\* the body returns or raises: the finally block (lines 66-81)
SelExit ==
    /\ stage = "in"
    /\ \E body_raised \in BOOLEAN, raises \in BOOLEAN :
          LET after == maintained_exit(objects, selectable, active,
                                       previous_selection, previous_active,
                                       raises)
          IN /\ selected_objects' = after.selected
             /\ printed' = after.printed
             /\ active' = after.active
             /\ outcome' = IF after.raised THEN "ReferenceError"
                            ELSE IF body_raised THEN "raised"
                            ELSE "returned"
    /\ stage' = "left"
    /\ UNCHANGED <<objects, removed, selectable, previous_selection,
                   previous_active, at_entry,
                   iterVars, hierVars, hostVars,
                   appVars, scopeVars>>

NextSel ==
    \/ SelEnter
    \/ BodyRemove
    \/ BodyCreate
    \/ BodySelect
    \/ BodyActivate
    \/ SelExit

SpecSel == InitSel /\ [][NextSel]_vars

----------------------------------------------------------------------------
(* avalon.blender.pipeline and operators: install and uninstall *)

MaxInstalls == 3

\* the first occurrence of x taken out of q: list.remove(x)
RECURSIVE Without(_, _)
Without(q, x) ==
    IF q = <<>> THEN <<>>
    ELSE IF Head(q) = x THEN Tail(q)
    ELSE <<Head(q)>> \o Without(Tail(q), x)

\* _register_callbacks() (lines 171-182)
register_callbacks(h) ==
    [h EXCEPT !.load_post = Append(@, "_on_open"),
              !.save_pre = Append(@, "_on_before_scene_save"),
              !.save_post = Append(@, "_on_scene_save")]

\* operators.register() (operators.py, lines 173-187); the host refuses a
\* class that is registered already
operators_register(h) ==
    IF h.background THEN h
    ELSE IF h.registered THEN [h EXCEPT !.error = "ValueError"]
    ELSE [h EXCEPT !.registered = TRUE,
                   !.editor_menus = Append(@, "avalon_menu_draw")]

\* operators.unregister() (operators.py, lines 190-204); the host refuses
\* a class that is not registered
operators_unregister(h) ==
    IF h.background THEN h
    ELSE IF ~h.registered THEN [h EXCEPT !.error = "RuntimeError"]
    ELSE [h EXCEPT !.registered = FALSE,
                   !.editor_menus = Without(@, "avalon_menu_draw")]

\* install(config) (lines 16-35)
install(h) ==
    LET called == register_callbacks(h)
        shown == operators_register(called)
    IN IF shown.error # "none" THEN shown
       ELSE [shown EXCEPT !.registered_hosts = @ \cup {"blender"}]

\* uninstall(config) (lines 50-61); pyblish raises for a host that is not
\* registered
uninstall(h) ==
    IF "blender" \notin h.registered_hosts
    THEN [h EXCEPT !.error = "ValueError"]
    ELSE operators_unregister(
             [h EXCEPT !.registered_hosts = @ \ {"blender"}])

\* api.emit(event) by each handler of a list, in order
RECURSIVE run_handlers(_, _)
run_handlers(handlers, has_filepath) ==
    IF handlers = <<>> THEN <<>>
    ELSE LET event ==
                 IF Head(handlers) = "_on_open"
                 THEN (IF has_filepath THEN "open" ELSE "new")
                 ELSE IF Head(handlers) = "_on_scene_save" THEN "save"
                 ELSE "before_save"
         IN <<event>> \o run_handlers(Tail(handlers), has_filepath)

HostNow ==
    [load_post |-> load_post, save_pre |-> save_pre, save_post |-> save_post,
     registered |-> registered, editor_menus |-> editor_menus,
     registered_hosts |-> registered_hosts, background |-> background,
     error |-> "none"]

HostBecomes(h) ==
    /\ load_post' = h.load_post
    /\ save_pre' = h.save_pre
    /\ save_post' = h.save_post
    /\ registered' = h.registered
    /\ editor_menus' = h.editor_menus
    /\ registered_hosts' = h.registered_hosts

InitApp ==
    /\ load_post = <<>>
    /\ save_pre = <<>>
    /\ save_post = <<>>
    /\ registered = FALSE
    /\ editor_menus = <<>>
    /\ registered_hosts = {}
    /\ background \in BOOLEAN
    /\ filepath \in BOOLEAN
    /\ emitted = [on |-> "none", events |-> <<>>]
    /\ last_call = NoCall
    /\ installs = 0
    /\ IterIdle
    /\ HierIdle
    /\ HostIdle
    /\ SelIdle
    /\ ScopeIdle

Install ==
    /\ installs < MaxInstalls
    /\ installs' = installs + 1
    /\ LET h == install(HostNow)
       IN /\ HostBecomes(h)
          /\ last_call' = [name |-> "install", error |-> h.error,
                           after |-> last_call.name]
    /\ emitted' = [on |-> "none", events |-> <<>>]
    /\ UNCHANGED <<background, filepath,
                   iterVars, hierVars, hostVars, selVars, scopeVars>>

Uninstall ==
    /\ LET h == uninstall(HostNow)
       IN /\ HostBecomes(h)
          /\ last_call' = [name |-> "uninstall", error |-> h.error,
                           after |-> last_call.name]
    /\ emitted' = [on |-> "none", events |-> <<>>]
    /\ UNCHANGED <<background, filepath, installs,
                   iterVars, hierVars, hostVars, selVars, scopeVars>>

\* the host opens a file, or a new one: the handlers of load_post run
\* (_on_open, lines 190-200)
FileOpened ==
    /\ \E named \in BOOLEAN :
          /\ filepath' = named
          /\ emitted' = [on |-> "load",
                         events |-> run_handlers(load_post, named)]
    /\ UNCHANGED <<load_post, save_pre, save_post, registered, editor_menus,
                   registered_hosts, background, last_call, installs,
                   iterVars, hierVars, hostVars, selVars, scopeVars>>

\* the host saves the file: the handlers of save_pre, then those of
\* save_post run (lines 203-212)
FileSaved ==
    /\ filepath' = TRUE
    /\ emitted' = [on |-> "save",
                   events |-> run_handlers(save_pre, filepath)
                                \o run_handlers(save_post, TRUE)]
    /\ UNCHANGED <<load_post, save_pre, save_post, registered, editor_menus,
                   registered_hosts, background, last_call, installs,
                   iterVars, hierVars, hostVars, selVars, scopeVars>>

NextApp ==
    \/ Install
    \/ Uninstall
    \/ FileOpened
    \/ FileSaved

SpecApp == InitApp /\ [][NextApp]_vars

----------------------------------------------------------------------------
(* Vocabulary of the properties *)

HasExpandedScope == caller \in {"preserve_expanded_rows", "_refresh_model"}
HasSelectionScope == caller \in {"preserve_selection", "_refresh_model"}

\* the scope has been left
ExpandedLeft == HasExpandedScope /\ pc = "done"
SelectionLeft == HasSelectionScope /\ pc \in {"selection_exited", "done"}

\* the step that is the exit phase of a scope
ExpandedExitStep == HasExpandedScope /\ pc # "done" /\ pc' = "done"
SelectionExitStep == HasSelectionScope /\ pc = "rebuilt" /\ pc' # "rebuilt"

\* keys of the rows expanded, selected, current before the rebuild
ExpandedBefore == {data(pre.model, i) : i \in pre.isExpanded}
SelectedBefore == {data(pre.model, i) : i \in pre.selection}
CurrentBefore == data(pre.model, pre.currentIndex)

KeysOf(m) == {m.key[i] : i \in RowsOf(m)}

\* the rebuild reproduced an isomorphic tree with identical keys
SameTree == rebuild.kind = "same"

\* host calls of one exit phase
CallsOf(scope) == SelectSeq(log, LAMBDA c : c.scope = scope)
Called(scope, op, index) ==
    \E j \in 1..Len(log) : log[j] = Call(scope, op, index)

\* rows of the rebuilt tree sharing a key
Shared(k) == Cardinality({i \in RowsOf(model) : model.key[i] = k}) >= 2

----------------------------------------------------------------------------
(* C1  Expansion round trip: after preserve_expanded_rows around a rebuild  *)
(* that reproduces the same tree with the same keys, whatever expansion     *)
(* state the rebuild left, exactly the rows expanded before are expanded.   *)
C1_ExpansionRoundTrip ==
    (ExpandedLeft /\ SameTree) => isExpanded = pre.isExpanded

(* C2  Selection round trip: after preserve_selection with current tracking *)
(* around a rebuild that reproduces the same tree and clears selection and  *)
(* current row, exactly the rows selected before are selected and the same  *)
(* row is current.                                                          *)
C2_SelectionRoundTrip ==
    (SelectionLeft /\ current_index /\ SameTree) =>
        /\ selection = pre.selection
        /\ currentIndex = pre.currentIndex

C4_DuplicateKeysUntouched ==
    /\ (ExpandedLeft /\ \E k \in ExpandedBefore : Shared(k)) =>
          \A i \in RowsOf(model) :
              IF model.key[i] \in ExpandedBefore
              THEN i \in isExpanded
              ELSE i \in isExpanded <=> i \in left.isExpanded
    /\ (SelectionLeft /\ \E k \in SelectedBefore : Shared(k)) =>
          \A i \in RowsOf(model) :
              IF model.key[i] \in SelectedBefore
              THEN i \in selection
              ELSE i \in selection <=> i \in left.selection

(* C4 amended: when rows of the rebuilt tree share a captured key, the      *)
(* restoration pass expands (selects) each of them, and it neither expands  *)
(* nor selects a row whose key was not captured: such a row is collapsed    *)
(* by the expansion pass and gets no select call from the selection pass.   *)
C4_DuplicateKeys ==
    /\ (ExpandedLeft /\ \E k \in ExpandedBefore : Shared(k)) =>
          \A i \in RowsOf(model) :
              IF model.key[i] \in ExpandedBefore
              THEN i \in isExpanded /\ Called("expanded", "expand", i)
              ELSE /\ i \notin isExpanded
                   /\ Called("expanded", "collapse", i)
                   /\ ~Called("expanded", "expand", i)
    /\ (SelectionLeft /\ \E k \in SelectedBefore : Shared(k)) =>
          \A i \in RowsOf(model) :
              IF model.key[i] \in SelectedBefore
              THEN i \in selection /\ Called("selection", "select", i)
              ELSE /\ i \in selection <=> i \in left.selection
                   /\ ~Called("selection", "select", i)

C4_Witness ==
    /\ caller = "preserve_expanded_rows"
    /\ pc = "done"
    /\ \E i, j, u \in RowsOf(model) :
          /\ i # j
          /\ model.key[i] = model.key[j]
          /\ model.key[i] \in ExpandedBefore
          /\ i \in pre.isExpanded /\ j \notin pre.isExpanded
          /\ {i, j} \subseteq isExpanded
          /\ model.key[u] \notin ExpandedBefore
          /\ u \in left.isExpanded
          /\ u \notin isExpanded

(* C5  Missing key: when the rebuild removed every row carrying a key that  *)
(* was captured as expanded, as selected or as current, both restoration    *)
(* passes end without raising, the captured keys that reappear get their    *)
(* state back, and a current key that vanished leaves no current row.       *)
Vanished(k) == k \notin KeysOf(model)

C5_MissingKey ==
    /\ (ExpandedLeft /\ \E k \in ExpandedBefore : Vanished(k)) =>
          /\ exc # "host"
          /\ \A i \in RowsOf(model) :
                i \in isExpanded <=> model.key[i] \in ExpandedBefore
    /\ (SelectionLeft /\ \E k \in SelectedBefore : Vanished(k)) =>
          /\ exc # "host"
          /\ \A i \in RowsOf(model) :
                i \in selection <=> model.key[i] \in SelectedBefore
    /\ (/\ SelectionLeft /\ current_index
        /\ pre.currentIndex # Root /\ Vanished(CurrentBefore)) =>
          /\ exc # "host"
          /\ currentIndex = Root
          /\ \A i \in RowsOf(model) :
                pre.selection # {} =>
                    (i \in selection <=> model.key[i] \in SelectedBefore)

C5_Witness ==
    /\ caller = "_refresh_model"
    /\ pc = "done"
    /\ rebuild.kind = "remove"
    /\ \E k \in ExpandedBefore : Vanished(k)
    /\ \E k \in SelectedBefore : Vanished(k)
    /\ pre.currentIndex # Root /\ Vanished(CurrentBefore)
    /\ left.isExpanded = {}
    /\ isExpanded # {}
    /\ selection # {}
    /\ currentIndex = Root

(* C6  Guaranteed restore: when the wrapped rebuild raises, the restoration *)
(* pass of each scope with a non-empty captured set still runs over the     *)
(* tree as it is, and the exception reaches the caller.                     *)
C6_GuaranteedRestore ==
    (pc = "done" /\ rebuild.raised) =>
        /\ (HasExpandedScope /\ ExpandedBefore # {}) =>
               Called("expanded", "iter", Root)
        /\ (HasSelectionScope /\ SelectedBefore # {}) =>
               Called("selection", "iter", Root)
        /\ exc = "rebuild"

(* C7  Failure isolation: when selecting one row (or making it current)     *)
(* fails during the restoration pass of preserve_selection, the failure is  *)
(* caught and every other row whose key was captured as selected is still   *)
(* selected.                                                                *)
C7_FailureIsolation ==
    SelectionLeft =>
        /\ exc # "host"
        /\ \A i \in RowsOf(model) \ failing :
              model.key[i] \in SelectedBefore => i \in selection

(* C8  Current row independent of selection: with current tracking on,      *)
(* whenever the key of the row that was current before the rebuild is in    *)
(* the rebuilt tree, a row with that key is current after the scope,        *)
(* whether or not that key was captured as selected, also when no row was   *)
(* selected.                                                                *)
C8_CurrentIndependent ==
    (/\ SelectionLeft /\ current_index
     /\ pre.currentIndex # Root /\ ~Vanished(CurrentBefore)) =>
        /\ currentIndex # Root
        /\ data(model, currentIndex) = CurrentBefore

(* C9  Cross-independence under reordering: after _refresh_model around a   *)
(* rebuild that keeps the keys, reverses the sibling order and leaves       *)
(* every row collapsed and deselected, a row is expanded iff its key was    *)
(* expanded before, selected iff its key was selected before, and current   *)
(* iff its key was current before.                                          *)
C9_Reordered ==
    (/\ caller = "_refresh_model" /\ pc = "done"
     /\ rebuild.kind = "reorder" /\ left.isExpanded = {}) =>
        \A i \in RowsOf(model) :
            /\ i \in isExpanded <=> model.key[i] \in ExpandedBefore
            /\ i \in selection <=> model.key[i] \in SelectedBefore
            /\ i = currentIndex <=>
                   (pre.currentIndex # Root /\ model.key[i] = CurrentBefore)

(* C10  With current_index=False preserve_selection selects every row       *)
(* whose key was selected before the rebuild and never calls                *)
(* setCurrentIndex: the current row is the one the rebuild left.            *)
C10_NoCurrentTracking ==
    (SelectionLeft /\ ~current_index) =>
        /\ \A i \in RowsOf(model) :
              model.key[i] \in SelectedBefore => i \in selection
        /\ \A i \in 0..MaxNodes : ~Called("selection", "setCurrentIndex", i)
        /\ currentIndex = left.currentIndex

C10_Witness ==
    /\ caller = "preserve_selection"
    /\ pc = "done"
    /\ ~current_index
    /\ pre.currentIndex # Root
    /\ pre.currentIndex \in pre.selection
    /\ ~Vanished(CurrentBefore)
    /\ selection # {}
    /\ currentIndex = Root

(* C13  With a non-empty captured expanded set the restoration pass of      *)
(* preserve_expanded_rows visits every row of the rebuilt tree once and     *)
(* leaves it expanded iff its key was captured: a row the rebuild left      *)
(* expanded whose key was not captured is collapsed by a collapse call.     *)
VisitsOf(i) ==
    Cardinality({j \in 1..Len(log) :
                    /\ log[j].scope = "expanded"
                    /\ log[j].index = i
                    /\ log[j].op \in {"expand", "collapse"}})

C13_ExpandIffCaptured ==
    (ExpandedLeft /\ ExpandedBefore # {}) =>
        /\ Called("expanded", "iter", Root)
        /\ \A i \in RowsOf(model) :
              /\ VisitsOf(i) = 1
              /\ i \in isExpanded <=> model.key[i] \in ExpandedBefore
              /\ IF model.key[i] \in ExpandedBefore
                 THEN Called("expanded", "expand", i)
                 ELSE Called("expanded", "collapse", i)

C13_Witness ==
    /\ ExpandedLeft
    /\ \E i, u \in RowsOf(model) :
          /\ model.key[i] \in ExpandedBefore
          /\ i \notin left.isExpanded
          /\ i \in isExpanded
          /\ model.key[u] \notin ExpandedBefore
          /\ u \in left.isExpanded
          /\ u \notin isExpanded

----------------------------------------------------------------------------
(* C14  Traversal: on every finite tree _iter_model_rows ends and yields    *)
(* every row reachable from the root exactly once, breadth first (a parent  *)
(* before its children, siblings in row order, a level before the next),    *)
(* the root index once when include_root is set and never otherwise; a      *)
(* second traversal of the unchanged tree yields the same sequence.         *)
Elems(q) == {q[j] : j \in 1..Len(q)}

\* the indices within k steps below the root
RECURSIVE Within(_, _)
Within(t, k) ==
    IF k = 0 THEN {Root}
    ELSE LET up == Within(t, k - 1)
         IN up \cup UNION {Elems(t.children[x]) : x \in up}

Reachable(t) == Within(t, MaxNodes)

Depth(t, i) == CHOOSE k \in 0..MaxNodes :
                   i \in Within(t, k) /\ (k > 0 => i \notin Within(t, k - 1))

ParentIn(t, i) == CHOOSE x \in 0..MaxNodes : i \in Elems(t.children[x])

PosIn(q, x) == CHOOSE j \in 1..Len(q) : q[j] = x

BreadthFirst(t, q) ==
    /\ \A j, k \in 1..Len(q) : j < k => Depth(t, q[j]) <= Depth(t, q[k])
    /\ \A i \in Elems(q) \ {Root} :
          ParentIn(t, i) \in Elems(q) => PosIn(q, ParentIn(t, i)) < PosIn(q, i)
    /\ \A x \in Reachable(t) : \A a, b \in 1..Len(t.children[x]) :
          a < b => PosIn(q, t.children[x][a]) < PosIn(q, t.children[x][b])
    /\ \A a, b \in Elems(q) \ {Root} :
          (/\ ParentIn(t, a) # Root /\ ParentIn(t, b) # Root
           /\ PosIn(q, ParentIn(t, a)) < PosIn(q, ParentIn(t, b)))
              => PosIn(q, a) < PosIn(q, b)

C14_Traversal ==
    /\ Len(indices) <= MaxNodes + 1
    /\ \A c \in 1..Len(results) :
          LET q == results[c]
          IN /\ Elems(q) = (Reachable(tree) \ {Root})
                               \cup (IF include_root THEN {Root} ELSE {})
             /\ Len(q) = Cardinality(Elems(q))
             /\ include_root => q[1] = Root
             /\ BreadthFirst(tree, LET all == <<Root>> \o q
                                   IN IF include_root THEN q ELSE all)
    /\ \A c, d \in 1..Len(results) : results[c] = results[d]

C14_Witness ==
    /\ Len(results) = 2
    /\ include_root
    /\ Len(results[2]) = MaxNodes + 1
    /\ \E x \in Reachable(tree) : Len(tree.children[x]) >= 2
    /\ \E i \in Reachable(tree) : Depth(tree, i) = 2

----------------------------------------------------------------------------
(* C15: the hierarchy built by AssetModel.refresh *)

\* the chain of parent references of record r reaches the project
RECURSIVE ReachesIn(_, _, _)
ReachesIn(db, r, k) ==
    \/ db[r].parent = ProjectId
    \/ /\ k > 0
       /\ db[r].parent \in Nodes
       /\ ReachesIn(db, db[r].parent, k - 1)

Reaches(db, r) == ReachesIn(db, r, MaxNodes)

\* the same, with r and every record on the chain in silo s
RECURSIVE ReachesWithin(_, _, _, _)
ReachesWithin(db, s, r, k) ==
    /\ db[r].silo = s
    /\ \/ db[r].parent = ProjectId
       \/ /\ k > 0
          /\ db[r].parent \in Nodes
          /\ ReachesWithin(db, s, db[r].parent, k - 1)

Occurrences(q, x) == Cardinality({j \in 1..Len(q) : q[j] = x})

\* all the children lists of the tree, one after the other
AllChildren(t) ==
    LET RECURSIVE Upto(_)
        Upto(x) == IF x < 0 THEN <<>> ELSE Upto(x - 1) \o t.children[x]
    IN Upto(MaxNodes)

NodeOf(r) == IF assets[r].parent = ProjectId THEN Root ELSE assets[r].parent

\* the tree holds exactly the records of B, each once, each under the node
\* of its parent record, parents made first, siblings in query order
HierarchyOf(B) ==
    /\ RowsOf(nodes) = B
    /\ Elems(AllChildren(nodes)) = B
    /\ Elems(created) = B
    /\ \A r \in B :
          /\ Occurrences(AllChildren(nodes), r) = 1
          /\ Occurrences(created, r) = 1
          /\ nodes.key[r] = r
          /\ r \in Elems(nodes.children[NodeOf(r)])
          /\ NodeOf(r) # Root =>
                /\ NodeOf(r) \in B
                /\ PosIn(created, NodeOf(r)) < PosIn(created, r)
    /\ \A x \in 0..MaxNodes : \A a, b \in 1..Len(nodes.children[x]) :
          a < b => nodes.children[x][a] < nodes.children[x][b]

\* C15 as stated: after a refresh the tree holds one node for each record of
\* the current silo whose chain of parent references reaches the project,
\* under the node of its parent record, parents first and siblings in query
\* order, and nothing else.
C15_HierarchyOfReaching ==
    fresh => HierarchyOf({r \in Nodes : /\ assets[r].silo = silo
                                        /\ Reaches(assets, r)})

\* C15, amended: after a refresh the tree holds one node for each record
\* whose chain of parent references reaches the project through records of
\* the current silo only, itself included, under the node of its parent
\* record, parents first and siblings in query order, and nothing else:
\* neither a record cut off from the project, nor one below a record of
\* another silo, nor a node of the tree before the refresh.
C15_Hierarchy ==
    fresh => HierarchyOf({r \in Nodes :
                            ReachesWithin(assets, silo, r, MaxNodes)})

\* a refresh over a tree that held a node which the new tree must not hold;
\* the new tree is two levels deep, and one record of the silo is cut off
\* from the project
C15_Witness ==
    /\ fresh
    /\ replaced \ RowsOf(nodes) # {}
    /\ \E r \in RowsOf(nodes) : NodeOf(r) # Root
    /\ \E r \in Nodes : /\ assets[r].silo = silo
                         /\ ~Reaches(assets, r)
    /\ Cardinality(RowsOf(nodes)) = 2

----------------------------------------------------------------------------
(* C11: container metadata round trip *)

Containers == {c \in 1..Len(collections) : passed[c].by = "containerise"}

EntriesOf(c) == {j \in 1..Len(listing) : listing[j].node = c}

\* the entry of container c carries the schema, the marker, the name and the
\* namespace passed in, the name of the collection and the collection
EntryOf(c, j) ==
    /\ listing[j].schema = Str("avalon-core:container-2.0")
    /\ listing[j].id = Str("pyblish.avalon.container")
    /\ listing[j].name = passed[c].name
    /\ listing[j].namespace = passed[c].namespace
    /\ listing[j].objectName = Str(collections[c].name)
    /\ listing[j].node = c

NothingElseListed ==
    /\ \A c \in 1..Len(collections) :
          \/ collections[c].avalon = Absent
          \/ get_id(collections[c].avalon) # Str("pyblish.avalon.container")
          => EntriesOf(c) = {}
    /\ \A j \in 1..Len(listing) : listing[j].node \in 1..Len(collections)

\* C11 as stated: ls() yields an entry for every collection made by
\* containerise whose schema, id, name, namespace, loader and representation
\* equal the values passed in, with objectName the name of the collection
\* and node the collection; it yields none for a collection without the
\* metadata or with another id.
C11_RoundTripOfValues ==
    listed =>
        /\ \A c \in Containers : \E j \in EntriesOf(c) :
              /\ EntryOf(c, j)
              /\ listing[j].loader = passed[c].loader
              /\ listing[j].representation = passed[c].representation
        /\ NothingElseListed

\* C11, amended: ls() yields exactly one entry for every collection made by
\* containerise; its schema, id, name and namespace equal the values passed
\* in, its loader and representation equal the string form of the values
\* passed in (str(None), the text "None", for the default loader), its
\* objectName is the name of the collection and its node the collection; it
\* yields none for a collection without the metadata or with another id.
C11_RoundTrip ==
    listed =>
        /\ \A c \in Containers :
              /\ Cardinality(EntriesOf(c)) = 1
              /\ \A j \in EntriesOf(c) :
                    /\ EntryOf(c, j)
                    /\ listing[j].loader = str(passed[c].loader)
                    /\ listing[j].representation = str(passed[c].representation)
        /\ NothingElseListed

\* a listing of a scene with a container made with the default loader and an
\* ObjectId, a collection without the metadata, and one with another id
C11_Witness ==
    /\ listed
    /\ \E c \in Containers : /\ passed[c].loader = NoneValue
                              /\ passed[c].representation.type = "ObjectId"
                              /\ EntriesOf(c) # {}
    /\ \E c \in 1..Len(collections) : /\ passed[c].by = "host"
                                       /\ collections[c].avalon # Absent
    /\ \E c \in 1..Len(collections) : /\ passed[c].by = "install"
                                       /\ collections[c].avalon = Absent

----------------------------------------------------------------------------
(* C12: maintained_selection *)

SelectionRestored ==
    /\ selected_objects = at_entry.selected \cap selectable
    /\ Elems(printed) = at_entry.selected \ selectable
    /\ \A o \in Elems(printed) : Occurrences(printed, o) = 1

----------------------------------------------------------------------------
(* C16: install and uninstall *)

AppEvents == {"open", "new", "save", "before_save"}

\* C16: after a sequence of install and uninstall calls that ends with
\* uninstall no handler appended by install is left in load_post, save_pre
\* or save_post; after an install that follows it each list holds its
\* handler once, and a file open or save of the host is emitted as an
\* application event once.
C16_InstallUninstallSymmetry ==
    /\ last_call.name = "uninstall" =>
          /\ load_post = <<>>
          /\ save_pre = <<>>
          /\ save_post = <<>>
          /\ emitted.events = <<>>
    /\ last_call.name = "install" /\ last_call.after # "install" =>
          /\ load_post = <<"_on_open">>
          /\ save_pre = <<"_on_before_scene_save">>
          /\ save_post = <<"_on_scene_save">>
          /\ \A e \in AppEvents : Occurrences(emitted.events, e) <= 1
          /\ emitted.on = "load" => Len(emitted.events) = 1
          /\ emitted.on = "save" => emitted.events = <<"before_save", "save">>

====
